---- MODULE Spec2Model ----
(***************************************************************************)
(* glance.store: the location list of one image record (StoreLocations,    *)
(* the locations property of ImageProxy), the delete policy switch and the *)
(* delayed-delete queue directory; the record-level calls of ImageProxy    *)
(* (delete, get_data), the member repo proxy and its access rules, the     *)
(* registry of store classes (create_stores, get_store_from_uri) and the   *)
(* metadata check of store_add_to_backend.                                 *)
(*                                                                         *)
(* The handlers are single-threaded per request; each action below is one  *)
(* whole handler call.  The answers of the backend driver (store.delete,   *)
(* store.get_size, store.add, store.get, store.set_acls) and the clock are *)
(* inputs of the call.                                                     *)
(***************************************************************************)
EXTENDS Integers, Sequences, FiniteSets, TLC

VARIABLES
    value,   \* image.locations: the raw list wrapped by StoreLocations
    queue,   \* files of CONF.scrubber_datadir: image id -> entry, or NoFile
    CONF,    \* the configuration options read by the module
    last,    \* the call that has just finished, as its caller observes it
    image,   \* the wrapped image: its status, visibility and member ids
    SCHEME_TO_CLS_MAP,  \* location.SCHEME_TO_CLS_MAP: scheme -> store class
    workers  \* the concurrent workers serving schedule requests: where each is

vars == <<value, queue, CONF, last, image, SCHEME_TO_CLS_MAP, workers>>

----------------------------------------------------------------------------
(* Bounds *)

MaxLen == 3     \* longest location list
MaxArg == 2     \* longest list handed to extend, += and the locations setter
MaxNow == 1     \* latest clock reading, in ticks
MaxIds == 2     \* image ids known to the scheduler
MaxStores == 3  \* longest CONF.known_stores
MaxScheme == 2  \* longest scheme of a uri handed to get_store_from_uri
MaxRest == 1    \* longest text after the '://' of such a uri
MaxNodes == 4   \* most values, nested ones included, in a store's metadata

----------------------------------------------------------------------------
(* Values *)

\* URIs are character sequences; "f" is a registered scheme, "x" is not.
UriFA == <<"f", ":", "/", "/", "a">>
UriFB == <<"f", ":", "/", "/", "b">>
UriXA == <<"x", ":", "/", "/", "a">>
Uris == {UriFA, UriFB, UriXA}

Loc(u) == [url |-> u]
Locations == {Loc(u) : u \in Uris}

\* the image wrapped by the ImageProxy
image_id == 1

\* the fields of the wrapped image the module reads and writes, besides its
\* locations; members stands for the member repo of the image
Statuses == {"queued", "active", "deleted", "pending_delete"}
Visibilities == {"public", "private"}
Tenants == {"t1", "t2"}
LoadedImage(v) ==
    [status |-> IF v = <<>> THEN "queued" ELSE "active",
     visibility |-> "private", members |-> {}]
ImageIds == 1..MaxIds

\* time.time() is a float: the clock is read in ticks of 1/TicksPerSecond s
TicksPerSecond == 2
Nows == 0..MaxNow
\* CONF.scrub_time, in seconds
scrub_time == 1

NoFile == [uri |-> <<>>, enc |-> FALSE, time |-> -1, mtime |-> -1]

\* what store.delete(loc) of the driver does
DeleteOutcomes ==
    {"ok", "NotFound", "NotImplementedError", "UnsupportedBackend", "Forbidden"}

\* what store.get_size(loc) of the driver does
SizeOutcomes ==
    {[exc |-> "none", size |-> n] : n \in -1..1}
        \cup {[exc |-> e, size |-> 0] : e \in {"NotFound", "Forbidden"}}

SeqsUpTo(S, n) == UNION {[1..k -> S] : k \in 0..n}

----------------------------------------------------------------------------
(* Python list primitives *)

Min(a, b) == IF a < b THEN a ELSE b
Max(a, b) == IF a > b THEN a ELSE b

\* a negative index counts from the end
PyNorm(i, n) == IF i < 0 THEN i + n ELSE i

\* list[i], list.pop(i), del list[i], list[i] = x raise IndexError outside
InRange(v, i) == PyNorm(i, Len(v)) >= 0 /\ PyNorm(i, Len(v)) < Len(v)

\* 1-based position of list[i]
Pos(v, i) == PyNorm(i, Len(v)) + 1

RemoveAt(v, p) == SubSeq(v, 1, p - 1) \o SubSeq(v, p + 1, Len(v))

\* list.insert(i, x): the index is clamped, never an error
list_insert(v, i, x) ==
    LET k == Max(0, Min(Len(v), PyNorm(i, Len(v))))
    IN  SubSeq(v, 1, k) \o <<x>> \o SubSeq(v, k + 1, Len(v))

\* list[i:j] for i, j >= 0
list_getslice(v, i, j) == SubSeq(v, Min(i, Len(v)) + 1, Min(j, Len(v)))

\* str.find(c): 0-based index of the first occurrence, -1 when absent
str_find(s, c) ==
    IF \E k \in 1..Len(s) : s[k] = c
    THEN (CHOOSE k \in 1..Len(s) : s[k] = c /\ \A m \in 1..(k - 1) : s[m] # c) - 1
    ELSE -1

\* s[0:hi]
str_prefix(s, hi) ==
    LET h == IF hi < 0 THEN Max(0, hi + Len(s)) ELSE Min(hi, Len(s))
    IN  SubSeq(s, 1, h)

----------------------------------------------------------------------------
(* Dispatch and the storage operations facade *)

\* mutant: the slice ends at the '/' and keeps the ':'
get_store_from_uri_keeps_colon(uri) == str_prefix(uri, str_find(uri, "/"))

\* get_store_from_uri: the scheme the store is looked up by
get_store_from_uri(uri) == str_prefix(uri, str_find(uri, "/") - 1)

\* get_store_from_scheme: TRUE when a store class is registered
get_store_from_scheme(scheme) == scheme \in DOMAIN SCHEME_TO_CLS_MAP

\* get_store_from_scheme: the class the store object is made from
store_class(scheme) == SCHEME_TO_CLS_MAP[scheme]

\* delete_from_backend: [store |-> what store.delete was asked, raised |-> error]
delete_from_backend(uri, out) ==
    IF ~get_store_from_scheme(get_store_from_uri(uri))
    THEN [store |-> "not_called", raised |-> "UnknownScheme"]
    ELSE IF out = "ok" THEN [store |-> out, raised |-> "none"]
    ELSE IF out = "NotImplementedError"
    THEN [store |-> out, raised |-> "StoreDeleteNotSupported"]
    ELSE [store |-> out, raised |-> out]

\* the except clauses of safe_delete_from_backend
SafeDeleteAbsorbs == {"NotFound", "StoreDeleteNotSupported", "UnsupportedBackend"}

\* mutant: a bare except that absorbs every error
safe_delete_absorbs_all(uri, out) ==
    [delete_from_backend(uri, out) EXCEPT !.raised = "none"]

safe_delete_from_backend(uri, out) ==
    LET d == delete_from_backend(uri, out)
    IN  [d EXCEPT !.raised = IF d.raised \in SafeDeleteAbsorbs THEN "none" ELSE @]

\* int(delete_time) of the entry text, delete_time in ticks
int_seconds(t) == t \div TicksPerSecond

WriteEntry(uri, now) ==
    [uri   |-> uri,
     enc   |-> CONF.metadata_encryption_key,
     time  |-> int_seconds(now + scrub_time * TicksPerSecond),
     mtime |-> now + scrub_time * TicksPerSecond]

\* mutant: no os.path.exists check, the file is overwritten
schedule_overwrites(q, uri, id, now) ==
    [queue |-> [q EXCEPT ![id] = WriteEntry(uri, now)], raised |-> "none"]

\* schedule_delayed_delete_from_backend: [queue, raised]
schedule_delayed_delete_from_backend(q, uri, id, now) ==
    IF q[id] # NoFile
    THEN [queue |-> q, raised |-> "Duplicate"]
    ELSE [queue |-> [q EXCEPT ![id] = WriteEntry(uri, now)], raised |-> "none"]

\* The statements of schedule_delayed_delete_from_backend one by one, as
\* they interleave when workers serve requests at the same time:
\* os.path.exists(file_path)
schedule_exists(q, id) == q[id] # NoFile

\* the with block: the file is created or overwritten with the two fields;
\* its mtime is the time of writing
schedule_write(q, uri, id, now) ==
    [q EXCEPT ![id] = [WriteEntry(uri, now) EXCEPT !.mtime = now]]

\* os.utime(file_path, (delete_time, delete_time))
schedule_utime(q, id, now) ==
    [q EXCEPT ![id].mtime = now + scrub_time * TicksPerSecond]

\* the workers that serve schedule requests at the same time, and a request:
\* pc is the statement it is at, "returned" or "raised" when it is over
Workers == {"w1", "w2"}
Request(pc, uri, id, now, raised) ==
    [pc |-> pc, uri |-> uri, id |-> id, now |-> now, raised |-> raised]
NoWorkers == [r \in Workers |-> Request("none", <<>>, 0, 0, "none")]

\* mutant: the flag is not consulted, every request deletes at once
delete_image_ignores_flag(q, id, uri, out, now) ==
    LET d == safe_delete_from_backend(uri, out)
    IN  [queue |-> q, raised |-> d.raised,
         call |-> [path |-> "safe_delete", uri |-> uri, store |-> d.store,
                   raised |-> d.raised]]

\* delete_image_from_backend: one delete request; the record logged for it
\* says which path it took, what the driver was asked and what was raised
delete_image_from_backend(q, id, uri, out, now) ==
    IF CONF.delayed_delete
    THEN LET s == schedule_delayed_delete_from_backend(q, uri, id, now)
         IN  [queue |-> s.queue, raised |-> s.raised,
              call |-> [path |-> "schedule", uri |-> uri, store |-> "not_called",
                        raised |-> s.raised]]
    ELSE LET d == safe_delete_from_backend(uri, out)
         IN  [queue |-> q, raised |-> d.raised,
              call |-> [path |-> "safe_delete", uri |-> uri, store |-> d.store,
                        raised |-> d.raised]]

\* get_size_from_backend
get_size_from_backend(uri, out) ==
    IF ~get_store_from_scheme(get_store_from_uri(uri))
    THEN [exc |-> "UnknownScheme", size |-> 0]
    ELSE out

\* mutant: is_ok = size >= 0
check_location_uri_accepts_zero(uri, out) ==
    LET r == get_size_from_backend(uri, out)
    IN  IF r.exc \notin {"none", "UnknownScheme", "NotFound"} THEN r.exc
        ELSE IF r.exc # "none" \/ r.size < 0 THEN "BadStoreUri"
        ELSE "none"

\* _check_location_uri: the error it raises, "none" when the uri is accepted
check_location_uri(uri, out) ==
    LET r == get_size_from_backend(uri, out)
        is_ok == IF r.exc = "none" THEN r.size > 0
                 ELSE IF r.exc \in {"UnknownScheme", "NotFound"} THEN FALSE
                 ELSE TRUE
    IN  IF r.exc \notin {"none", "UnknownScheme", "NotFound"} THEN r.exc
        ELSE IF ~is_ok THEN "BadStoreUri"
        ELSE "none"

----------------------------------------------------------------------------
(* The registry of store classes *)

\* the store classes that can be imported, and what get_schemes() of an
\* instance returns: "Mirror" serves a scheme of "Filesystem", "Empty" none
StoreClasses == {"Filesystem", "Http", "Mirror", "Empty"}
get_schemes(cls) ==
    IF cls = "Filesystem" THEN {<<"f">>}
    ELSE IF cls = "Http" THEN {<<"h">>, <<"h", "s">>}
    ELSE IF cls = "Mirror" THEN {<<"f">>}
    ELSE {}

\* entries of CONF.known_stores: a class path as one token, with blanks
StoreEntries ==
    {<<>>, <<" ">>, <<"Filesystem">>, <<" ", "Filesystem">>, <<"Http">>,
     <<"Mirror", " ">>, <<"Empty">>, <<"Missing">>}

\* str.strip()
RECURSIVE str_lstrip(_)
str_lstrip(e) == IF e # <<>> /\ Head(e) = " " THEN str_lstrip(Tail(e)) ELSE e
RECURSIVE str_rstrip(_)
str_rstrip(e) ==
    IF e # <<>> /\ e[Len(e)] = " " THEN str_rstrip(SubSeq(e, 1, Len(e) - 1)) ELSE e
str_strip(e) == str_rstrip(str_lstrip(e))

\* importutils.import_class: the class a path names; when there is none it
\* raises the error _get_store_class is written to catch
import_class(e) ==
    IF Len(e) = 1 /\ e[1] \in StoreClasses
    THEN [raised |-> "none", cls |-> e[1]]
    ELSE [raised |-> "NotFound", cls |-> "none"]

\* _get_store_class
get_store_class(e) ==
    IF import_class(e).raised = "NotFound"
    THEN [raised |-> "BackendException", cls |-> "none"]
    ELSE import_class(e)

EmptyRegistry == [s \in {} |-> "none"]

\* location.register_scheme_map: the bindings are merged into the registry
register_scheme_map(map, scheme_map) ==
    [s \in DOMAIN map \cup DOMAIN scheme_map |->
        IF s \in DOMAIN scheme_map THEN scheme_map[s] ELSE map[s]]

\* what create_stores hands back: count is <<store_count>> when it returns,
\* registered the classes register_scheme_map was called for, in order
Stores(raised, count, map, registered) ==
    [raised |-> raised, count |-> count, map |-> map, registered |-> registered]

\* mutant: no store_classes check, every occurrence is registered and counted
RECURSIVE create_stores_counts_all(_, _, _, _, _, _)
create_stores_counts_all(entries, k, classes, map, count, registered) ==
    IF k > Len(entries) THEN Stores("none", <<count>>, map, registered)
    ELSE IF str_strip(entries[k]) = <<>>
    THEN create_stores_counts_all(entries, k + 1, classes, map, count, registered)
    ELSE LET c == get_store_class(str_strip(entries[k]))
         IN  IF c.raised # "none" \/ get_schemes(c.cls) = {}
             THEN Stores("BackendException", <<>>, map, registered)
             ELSE create_stores_counts_all(entries, k + 1, classes,
                      register_scheme_map(map,
                          [s \in get_schemes(c.cls) |-> c.cls]),
                      count + 1, Append(registered, c.cls))

\* mutant: a store without schemes is skipped, not an error
RECURSIVE create_stores_skips_empty(_, _, _, _, _, _)
create_stores_skips_empty(entries, k, classes, map, count, registered) ==
    IF k > Len(entries) THEN Stores("none", <<count>>, map, registered)
    ELSE IF str_strip(entries[k]) = <<>>
    THEN create_stores_skips_empty(entries, k + 1, classes, map, count, registered)
    ELSE LET c == get_store_class(str_strip(entries[k]))
         IN  IF c.raised # "none"
             THEN Stores(c.raised, <<>>, map, registered)
             ELSE IF get_schemes(c.cls) = {} \/ c.cls \in classes
             THEN create_stores_skips_empty(entries, k + 1, classes, map, count,
                                            registered)
             ELSE create_stores_skips_empty(entries, k + 1, classes \cup {c.cls},
                      register_scheme_map(map,
                          [s \in get_schemes(c.cls) |-> c.cls]),
                      count + 1, Append(registered, c.cls))

\* the for loop of create_stores over CONF.known_stores, k its position,
\* classes the local store_classes, count the local store_count
RECURSIVE create_stores_loop(_, _, _, _, _, _)
create_stores_loop(entries, k, classes, map, count, registered) ==
    IF k > Len(entries) THEN Stores("none", <<count>>, map, registered)
    ELSE IF str_strip(entries[k]) = <<>>
    THEN create_stores_loop(entries, k + 1, classes, map, count, registered)
    ELSE LET c == get_store_class(str_strip(entries[k]))
         IN  IF c.raised # "none"
             THEN Stores(c.raised, <<>>, map, registered)
             ELSE IF get_schemes(c.cls) = {}
             THEN Stores("BackendException", <<>>, map, registered)
             ELSE IF c.cls \in classes
             THEN create_stores_loop(entries, k + 1, classes, map, count, registered)
             ELSE create_stores_loop(entries, k + 1, classes \cup {c.cls},
                      register_scheme_map(map,
                          [s \in get_schemes(c.cls) |-> c.cls]),
                      count + 1, Append(registered, c.cls))

\* create_stores
create_stores(known_stores, map) ==
    create_stores_loop(known_stores, 1, {}, map, 0, <<>>)

----------------------------------------------------------------------------
(* The metadata a store returns from add *)

\* A value is its type and, for a dict or a list, its values in order (the
\* keys of a dict only appear in messages).  unicode is the text type; str
\* is the byte string of the language.
ScalarTypes == {"unicode", "str", "float", "NoneType"}
Scalar(t) == [t |-> t, items |-> <<>>]
None == Scalar("NoneType")

RECURSIVE Size(_)
Size(val) ==
    LET RECURSIVE Sum(_)
        Sum(k) == IF k = 0 THEN 0 ELSE Size(val.items[k]) + Sum(k - 1)
    IN  1 + Sum(Len(val.items))

\* the values of at most n values in all, and the lists of them
RECURSIVE MetaValues(_), MetaLists(_)
MetaValues(n) ==
    IF n <= 0 THEN {}
    ELSE {Scalar(t) : t \in ScalarTypes}
            \cup {[t |-> t, items |-> f] : t \in {"dict", "list"}, f \in MetaLists(n - 1)}
MetaLists(n) ==
    {<<>>} \cup UNION {{<<x>> \o f : f \in MetaLists(n - Size(x))} : x \in MetaValues(n)}

\* mutant: the items of a list are not looked at
RECURSIVE check_meta_data_skips_lists(_)
check_meta_data_skips_lists(val) ==
    IF val.t = "dict"
    THEN IF \A k \in 1..Len(val.items) :
               check_meta_data_skips_lists(val.items[k]) = "none"
         THEN "none" ELSE "BackendException"
    ELSE IF val.t = "list" THEN "none"
    ELSE IF val.t # "unicode" THEN "BackendException"
    ELSE "none"

\* _check_meta_data: the error it raises
RECURSIVE check_meta_data(_)
check_meta_data(val) ==
    IF val.t \in {"dict", "list"}
    THEN IF \A k \in 1..Len(val.items) : check_meta_data(val.items[k]) = "none"
         THEN "none" ELSE "BackendException"
    ELSE IF val.t # "unicode" THEN "BackendException"
    ELSE "none"

\* store_add_to_backend on what store.add returned: the error raised, and
\* the location handed back
store_add_to_backend(location, metadata) ==
    IF metadata # None /\ metadata.t # "dict"
    THEN [raised |-> "BackendException", ret |-> <<>>]
    ELSE IF metadata # None /\ check_meta_data(metadata) # "none"
    THEN [raised |-> "BackendException", ret |-> <<>>]
    ELSE [raised |-> "none", ret |-> location]

----------------------------------------------------------------------------
(* Observation of a call *)

NoLoc == [url |-> <<>>]

EmptyQueue == [id \in ImageIds |-> NoFile]

NoCall ==
    [op |-> "idle", i |-> 0, j |-> 0, location |-> NoLoc, other |-> <<>>,
     kind |-> "none", id |-> 0, pre |-> <<>>, prequeue |-> EmptyQueue,
     err |-> "none", deletes |-> <<>>, checks |-> <<>>, now |-> 0,
     gets |-> <<>>, ret |-> <<>>, acls |-> <<>>, preimage |-> LoadedImage(<<>>),
     arg |-> <<>>, registered |-> <<>>, premap |-> <<>>]

\* the answer of the driver to the k-th request of a call
Out(outs, k, default) == IF k \in DOMAIN outs THEN outs[k] ELSE default

SizeOk == [exc |-> "none", size |-> 1]

\* what a handler hands back: the list, the queue, the error raised ("none"
\* when it returned) and the requests it made
Result(v, q, err, deletes, checks) ==
    [value |-> v, queue |-> q, err |-> err, deletes |-> deletes, checks |-> checks]

CheckCall(uri, out) ==
    [uri |-> uri, got |-> get_size_from_backend(uri, out),
     raised |-> check_location_uri(uri, out)]

----------------------------------------------------------------------------
(* StoreLocations *)

\* StoreLocations.append
append(v, q, location, out) ==
    LET c == CheckCall(location.url, out)
    IN  IF c.raised # "none" THEN Result(v, q, c.raised, <<>>, <<c>>)
        ELSE Result(Append(v, location), q, "none", <<>>, <<c>>)

\* StoreLocations.insert
insert(v, q, i, location, out) ==
    LET c == CheckCall(location.url, out)
    IN  IF c.raised # "none" THEN Result(v, q, c.raised, <<>>, <<c>>)
        ELSE Result(list_insert(v, i, location), q, "none", <<>>, <<c>>)

\* StoreLocations.__setitem__
setitem(v, q, i, location, out) ==
    LET c == CheckCall(location.url, out)
    IN  IF c.raised # "none" THEN Result(v, q, c.raised, <<>>, <<c>>)
        ELSE IF ~InRange(v, i) THEN Result(v, q, "IndexError", <<>>, <<c>>)
        ELSE Result([v EXCEPT ![Pos(v, i)] = location], q, "none", <<>>, <<c>>)

\* the except branch of StoreLocations.pop: self.value.insert(i, location)
pop_rollback(v1, i, location) == list_insert(v1, i, location)

\* StoreLocations.pop
pop(v, q, i, out, now) ==
    IF ~InRange(v, i) THEN Result(v, q, "IndexError", <<>>, <<>>)
    ELSE LET location == v[Pos(v, i)]
             v1 == RemoveAt(v, Pos(v, i))
             d == delete_image_from_backend(q, image_id, location.url, out, now)
         IN  IF d.raised # "none"
             THEN Result(pop_rollback(v1, i, location), d.queue, d.raised,
                         <<d.call>>, <<>>)
             ELSE Result(v1, d.queue, "none", <<d.call>>, <<>>)

\* StoreLocations.count
count(v, location) == Cardinality({p \in 1..Len(v) : v[p] = location})

\* StoreLocations.index: 0-based index of the first occurrence
index(v, location) == (CHOOSE p \in 1..Len(v) :
                          v[p] = location /\ \A m \in 1..(p - 1) : v[m] # location) - 1

\* StoreLocations.remove
remove(v, q, location, out, now) ==
    IF count(v, location) > 0 THEN pop(v, q, index(v, location), out, now)
    ELSE Result(v, q, "ValueError", <<>>, <<>>)

\* StoreLocations.reverse
reverse(v) == [p \in 1..Len(v) |-> v[Len(v) + 1 - p]]

\* mutant: self.value.__delitem__(0) after the delete
delitem_removes_front(v, q, i, out, now) ==
    IF ~InRange(v, i) THEN Result(v, q, "IndexError", <<>>, <<>>)
    ELSE LET location == v[Pos(v, i)]
             d == delete_image_from_backend(q, image_id, location.url, out, now)
         IN  IF d.raised # "none"
             THEN Result(v, d.queue, d.raised, <<d.call>>, <<>>)
             ELSE Result(Tail(v), d.queue, "none", <<d.call>>, <<>>)

\* StoreLocations.__delitem__
delitem(v, q, i, out, now) ==
    IF ~InRange(v, i) THEN Result(v, q, "IndexError", <<>>, <<>>)
    ELSE LET location == v[Pos(v, i)]
             d == delete_image_from_backend(q, image_id, location.url, out, now)
         IN  IF d.raised # "none"
             THEN Result(v, d.queue, d.raised, <<d.call>>, <<>>)
             ELSE Result(RemoveAt(v, Pos(v, i)), d.queue, "none", <<d.call>>, <<>>)

\* the loop of StoreLocations.__delslice__ over the slice taken beforehand:
\* the k-th request is for locations[k], then self.value.__delitem__(i)
\* mutant: value.__delitem__(i) comes before the delete request
RECURSIVE delslice_loop_removes_first(_, _, _, _, _, _, _, _)
delslice_loop_removes_first(v, q, i, locations, k, outs, now, log) ==
    IF k > Len(locations) THEN Result(v, q, "none", log, <<>>)
    ELSE LET d == delete_image_from_backend(q, image_id, locations[k].url,
                                            Out(outs, k, "ok"), now)
             v1 == RemoveAt(v, Pos(v, i))
         IN  IF d.raised # "none"
             THEN Result(v1, d.queue, d.raised, Append(log, d.call), <<>>)
             ELSE delslice_loop_removes_first(v1, d.queue, i, locations, k + 1,
                                              outs, now, Append(log, d.call))

RECURSIVE delslice_loop(_, _, _, _, _, _, _, _)
delslice_loop(v, q, i, locations, k, outs, now, log) ==
    IF k > Len(locations) THEN Result(v, q, "none", log, <<>>)
    ELSE LET d == delete_image_from_backend(q, image_id, locations[k].url,
                                            Out(outs, k, "ok"), now)
         IN  IF d.raised # "none"
             THEN Result(v, d.queue, d.raised, Append(log, d.call), <<>>)
             ELSE delslice_loop(RemoveAt(v, Pos(v, i)), d.queue, i, locations,
                                k + 1, outs, now, Append(log, d.call))

\* StoreLocations.__delslice__
delslice(v, q, i, j, outs, now) ==
    LET i0 == Max(i, 0)
        j0 == Max(j, 0)
    IN  delslice_loop(v, q, i0, list_getslice(v, i0, j0), 1, outs, now, <<>>)

\* the validation loop of extend, __iadd__ and the locations setter
RECURSIVE check_all(_, _, _, _)
check_all(locations, k, outs, log) ==
    IF k > Len(locations) THEN [raised |-> "none", checks |-> log]
    ELSE LET c == CheckCall(locations[k].url, Out(outs, k, SizeOk))
         IN  IF c.raised # "none"
             THEN [raised |-> c.raised, checks |-> Append(log, c)]
             ELSE check_all(locations, k + 1, outs, Append(log, c))

\* mutant: each entry is appended as soon as it has validated
extend_appends_each(v, q, other, kind, outs) ==
    LET RECURSIVE each(_, _, _)
        each(acc, k, log) ==
            IF k > Len(other) THEN Result(acc, q, "none", <<>>, log)
            ELSE LET c == CheckCall(other[k].url, Out(outs, k, SizeOk))
                 IN  IF c.raised # "none"
                     THEN Result(acc, q, c.raised, <<>>, Append(log, c))
                     ELSE each(Append(acc, other[k]), k + 1, Append(log, c))
    IN  IF kind = "StoreLocations" THEN Result(v \o other, q, "none", <<>>, <<>>)
        ELSE each(v, 1, <<>>)

\* StoreLocations.extend; kind says whether other is a StoreLocations
extend(v, q, other, kind, outs) ==
    IF kind = "StoreLocations" THEN Result(v \o other, q, "none", <<>>, <<>>)
    ELSE LET c == check_all(other, 1, outs, <<>>)
         IN  IF c.raised # "none" THEN Result(v, q, c.raised, <<>>, c.checks)
             ELSE Result(v \o other, q, "none", <<>>, c.checks)

\* StoreLocations.__iadd__
iadd(v, q, other, kind, outs) ==
    IF kind = "StoreLocations" THEN Result(v \o other, q, "none", <<>>, <<>>)
    ELSE LET c == check_all(other, 1, outs, <<>>)
         IN  IF c.raised # "none" THEN Result(v, q, c.raised, <<>>, c.checks)
             ELSE Result(v \o other, q, "none", <<>>, c.checks)

----------------------------------------------------------------------------
(* The locations property of ImageProxy and ImageProxy.set_data *)

\* mutant: no check that the original list is empty
set_attr_replaces_any(v, q, val, kind, outs) ==
    IF kind \notin {"list", "StoreLocations"}
    THEN Result(v, q, "BadStoreUri", <<>>, <<>>)
    ELSE IF v = val THEN Result(v, q, "none", <<>>, <<>>)
    ELSE LET c == check_all(val, 1, outs, <<>>)
         IN  IF c.raised # "none" THEN Result(v, q, c.raised, <<>>, c.checks)
             ELSE Result(val, q, "none", <<>>, c.checks)

\* mutant: the list is assigned before its entries are checked
set_attr_assigns_first(v, q, val, kind, outs) ==
    IF kind \notin {"list", "StoreLocations"}
    THEN Result(v, q, "BadStoreUri", <<>>, <<>>)
    ELSE IF v = val THEN Result(v, q, "none", <<>>, <<>>)
    ELSE IF Len(v) > 0 THEN Result(v, q, "Invalid", <<>>, <<>>)
    ELSE LET c == check_all(val, 1, outs, <<>>)
         IN  Result(val, q, c.raised, <<>>, c.checks)

\* set_attr of _locations_proxy; kind is "list", "StoreLocations" or "other"
set_attr(v, q, val, kind, outs) ==
    IF kind \notin {"list", "StoreLocations"}
    THEN Result(v, q, "BadStoreUri", <<>>, <<>>)
    ELSE IF v = val THEN Result(v, q, "none", <<>>, <<>>)
    ELSE IF Len(v) > 0 THEN Result(v, q, "Invalid", <<>>, <<>>)
    ELSE LET c == check_all(val, 1, outs, <<>>)
         IN  IF c.raised # "none" THEN Result(v, q, c.raised, <<>>, c.checks)
             ELSE Result(val, q, "none", <<>>, c.checks)

\* mutant: del value[0] comes before the delete request
RECURSIVE del_attr_loop_removes_first(_, _, _, _, _, _)
del_attr_loop_removes_first(v, q, k, outs, now, log) ==
    IF Len(v) = 0 THEN Result(v, q, "none", log, <<>>)
    ELSE LET d == delete_image_from_backend(q, image_id, v[1].url,
                                            Out(outs, k, "ok"), now)
         IN  IF d.raised # "none"
             THEN Result(Tail(v), d.queue, d.raised, Append(log, d.call), <<>>)
             ELSE del_attr_loop_removes_first(Tail(v), d.queue, k + 1, outs, now,
                                              Append(log, d.call))

\* del_attr of _locations_proxy: the while loop, k counts its requests.
\* The closing delattr drops the attribute of the list the loop has emptied.
RECURSIVE del_attr_loop(_, _, _, _, _, _)
del_attr_loop(v, q, k, outs, now, log) ==
    IF Len(v) = 0 THEN Result(v, q, "none", log, <<>>)
    ELSE LET d == delete_image_from_backend(q, image_id, v[1].url,
                                            Out(outs, k, "ok"), now)
         IN  IF d.raised # "none"
             THEN Result(v, d.queue, d.raised, Append(log, d.call), <<>>)
             ELSE del_attr_loop(Tail(v), d.queue, k + 1, outs, now,
                                Append(log, d.call))

del_attr(v, q, outs, now) == del_attr_loop(v, q, 1, outs, now, <<>>)

\* CONF.default_store
default_store == <<"f">>

\* what store.add of the default store does; "bad_metadata" is a result
\* whose metadata store_add_to_backend rejects
AddOutcomes == {"ok", "NotImplementedError", "bad_metadata", "Forbidden"}

\* add_to_backend: the error it raises
add_to_backend(out) ==
    IF ~get_store_from_scheme(default_store) THEN "UnknownScheme"
    ELSE IF out = "ok" THEN "none"
    ELSE IF out = "NotImplementedError" THEN "StoreAddNotSupported"
    ELSE IF out = "bad_metadata" THEN "BackendException"
    ELSE out

\* ImageProxy.set_data: the url the store returned becomes the whole list
set_data(v, q, out, url) ==
    IF add_to_backend(out) # "none" THEN Result(v, q, add_to_backend(out), <<>>, <<>>)
    ELSE Result(<<Loc(url)>>, q, "none", <<>>, <<>>)

\* Image.delete of the domain layer, which ImageProxy.delete calls first:
\* it finalizes the deletion of the record
image_delete(img) == [img EXCEPT !.status = "deleted"]

\* the for loop of ImageProxy.delete over image.locations, k its position
RECURSIVE delete_loop(_, _, _, _, _, _)
delete_loop(v, q, k, outs, now, log) ==
    IF k > Len(v) THEN Result(v, q, "none", log, <<>>)
    ELSE LET d == delete_image_from_backend(q, image_id, v[k].url,
                                            Out(outs, k, "ok"), now)
         IN  IF d.raised # "none"
             THEN Result(v, d.queue, d.raised, Append(log, d.call), <<>>)
             ELSE delete_loop(v, d.queue, k + 1, outs, now, Append(log, d.call))

\* the statements ImageProxy.delete ran, in order, given its requests
DeleteSteps(n, requests) ==
    <<"image.delete">>
        \o (IF n > 0 /\ CONF.delayed_delete THEN <<"status">> ELSE <<>>)
        \o [k \in 1..Len(requests) |-> "delete_image_from_backend"]

\* mutant: pending_delete is set outside the 'if self.image.locations'
delete_sets_status_always(v, q, img, outs, now) ==
    LET r == IF Len(v) = 0 THEN Result(v, q, "none", <<>>, <<>>)
             ELSE delete_loop(v, q, 1, outs, now, <<>>)
    IN  [r |-> r,
         image |-> IF CONF.delayed_delete
                   THEN [image_delete(img) EXCEPT !.status = "pending_delete"]
                   ELSE image_delete(img),
         steps |-> DeleteSteps(Len(v), r.deletes)]

\* ImageProxy.delete: [r |-> the call's result, image |-> the image after
\* it, steps |-> what it ran]
delete(v, q, img, outs, now) ==
    LET r == IF Len(v) = 0 THEN Result(v, q, "none", <<>>, <<>>)
             ELSE delete_loop(v, q, 1, outs, now, <<>>)
    IN  [r |-> r,
         image |-> IF Len(v) > 0 /\ CONF.delayed_delete
                   THEN [image_delete(img) EXCEPT !.status = "pending_delete"]
                   ELSE image_delete(img),
         steps |-> DeleteSteps(Len(v), r.deletes)]

\* what store.get(loc) of the driver does
GetOutcomes == {"ok", "NotFound", "NotImplementedError", "Forbidden"}

\* get_from_backend: the data read is named by the uri it was read from
get_from_backend(uri, out) ==
    IF ~get_store_from_scheme(get_store_from_uri(uri))
    THEN [uri |-> uri, store |-> "not_called", raised |-> "UnknownScheme",
          data |-> <<>>]
    ELSE IF out = "ok"
    THEN [uri |-> uri, store |-> out, raised |-> "none", data |-> uri]
    ELSE IF out = "NotImplementedError"
    THEN [uri |-> uri, store |-> out, raised |-> "StoreGetNotSupported",
          data |-> <<>>]
    ELSE [uri |-> uri, store |-> out, raised |-> out, data |-> <<>>]

\* mutant: the loop goes on after a successful fetch and returns the last
RECURSIVE get_data_returns_last(_, _, _, _, _, _)
get_data_returns_last(v, k, outs, err, ret, log) ==
    IF k > Len(v)
    THEN [err |-> IF ret # <<>> THEN "none" ELSE err, ret |-> ret, gets |-> log]
    ELSE LET g == get_from_backend(v[k].url, Out(outs, k, "ok"))
         IN  get_data_returns_last(v, k + 1, outs,
                                   IF g.raised = "none" THEN err ELSE g.raised,
                                   IF g.raised = "none" THEN g.data ELSE ret,
                                   Append(log, g))

\* the for loop of ImageProxy.get_data, k its position, err the last error;
\* [err |-> raised, ret |-> data returned, gets |-> the fetches made]
RECURSIVE get_data_loop(_, _, _, _, _, _)
get_data_loop(v, k, outs, err, ret, log) ==
    IF k > Len(v) THEN [err |-> err, ret |-> ret, gets |-> log]
    ELSE LET g == get_from_backend(v[k].url, Out(outs, k, "ok"))
         IN  IF g.raised = "none"
             THEN [err |-> "none", ret |-> g.data, gets |-> Append(log, g)]
             ELSE get_data_loop(v, k + 1, outs, g.raised, ret, Append(log, g))

\* ImageProxy.get_data
get_data(v, outs) ==
    IF Len(v) = 0 THEN [err |-> "NotFound", ret |-> <<>>, gets |-> <<>>]
    ELSE get_data_loop(v, 1, outs, "none", <<>>, <<>>)

----------------------------------------------------------------------------
(* ImageMemberRepoProxy *)

\* what store.set_acls(loc, ...) of the driver does
AclOutcomes == {"ok", "NotImplementedError", "Forbidden"}

\* set_acls of the facade: the request as the driver got it, and the error
set_acls(uri, public, read_tenants, out) ==
    LET call == [uri |-> uri, public |-> public, read_tenants |-> read_tenants]
    IN  IF ~get_store_from_scheme(get_store_from_uri(uri))
        THEN [call |-> call, store |-> "not_called", raised |-> "UnknownScheme"]
        ELSE IF out \in {"ok", "NotImplementedError"}
        THEN [call |-> call, store |-> out, raised |-> "none"]
        ELSE [call |-> call, store |-> out, raised |-> out]

\* the for loop of _set_acls over the locations, k its position
RECURSIVE set_acls_loop(_, _, _, _, _, _)
set_acls_loop(v, k, public, member_ids, outs, log) ==
    IF k > Len(v) THEN [err |-> "none", acls |-> log]
    ELSE LET a == set_acls(v[k].url, public, member_ids, Out(outs, k, "ok"))
         IN  IF a.raised # "none"
             THEN [err |-> a.raised, acls |-> Append(log, a)]
             ELSE set_acls_loop(v, k + 1, public, member_ids, outs, Append(log, a))

\* mutant: the rule is pushed whatever the visibility, as ImageRepoProxy does
member_set_acls_pushes_public(v, img, outs) ==
    set_acls_loop(v, 1, img.visibility = "public",
                  IF img.visibility = "public" THEN {} ELSE img.members,
                  outs, <<>>)

\* ImageMemberRepoProxy._set_acls
member_set_acls(v, img, outs) ==
    IF Len(v) > 0 /\ img.visibility # "public"
    THEN set_acls_loop(v, 1, FALSE, img.members, outs, <<>>)
    ELSE [err |-> "none", acls |-> <<>>]

\* add and remove of the wrapped member repo, when they succeed
repo_add(img, member) == [img EXCEPT !.members = @ \cup {member}]
repo_remove(img, member) == [img EXCEPT !.members = @ \ {member}]

\* ImageMemberRepoProxy.add / remove: the repo first (changed is the image
\* it leaves when it succeeds, repo_out the error it raises), then _set_acls
member_change(v, img, changed, repo_out, outs) ==
    IF repo_out # "ok" THEN [err |-> repo_out, acls |-> <<>>, image |-> img]
    ELSE [err |-> member_set_acls(v, changed, outs).err,
          acls |-> member_set_acls(v, changed, outs).acls,
          image |-> changed]

----------------------------------------------------------------------------
(* Actions: one call each *)

Idle == last.op = "idle"

\* the call ends: the list, the queue, the image and what the caller saw
DoneImage(obs, r, img) ==
    /\ Len(r.value) <= MaxLen
    /\ value' = r.value
    /\ queue' = r.queue
    /\ image' = img
    /\ last' = [obs EXCEPT !.pre = value, !.prequeue = queue, !.err = r.err,
                           !.deletes = r.deletes, !.checks = r.checks,
                           !.preimage = image]
    /\ UNCHANGED <<CONF, SCHEME_TO_CLS_MAP, workers>>

\* a call of the location list, which leaves the rest of the image alone
Done(obs, r) == DoneImage(obs, r, image)

Call(op) == [NoCall EXCEPT !.op = op]

\* the indexes a caller may pass
Indexes == (0 - MaxLen - 1)..(MaxLen + 1)

\* the lists a caller may hand to a list of n entries
Others(n) == SeqsUpTo(Locations, Min(MaxArg, MaxLen - n))

\* the driver is asked only on the immediate path, the clock only on the other
DeleteAnswers(n) == IF CONF.delayed_delete THEN {<<>>} ELSE [1..n -> DeleteOutcomes]
DeleteAnswer == IF CONF.delayed_delete THEN {"ok"} ELSE DeleteOutcomes
Clock == IF CONF.delayed_delete THEN Nows ELSE {0}

Append_ ==
    /\ Idle
    /\ \E location \in Locations, out \in SizeOutcomes :
          Done([Call("append") EXCEPT !.location = location],
               append(value, queue, location, out))

Insert ==
    /\ Idle
    /\ \E i \in Indexes, location \in Locations, out \in SizeOutcomes :
          Done([Call("insert") EXCEPT !.i = i, !.location = location],
               insert(value, queue, i, location, out))

SetItem ==
    /\ Idle
    /\ \E i \in Indexes, location \in Locations, out \in SizeOutcomes :
          Done([Call("setitem") EXCEPT !.i = i, !.location = location],
               setitem(value, queue, i, location, out))

Pop ==
    /\ Idle
    /\ \E i \in Indexes, out \in DeleteAnswer, now \in Clock :
          Done([Call("pop") EXCEPT !.i = i, !.now = now],
               pop(value, queue, i, out, now))

Remove ==
    /\ Idle
    /\ \E location \in Locations, out \in DeleteAnswer, now \in Clock :
          Done([Call("remove") EXCEPT !.location = location, !.now = now],
               remove(value, queue, location, out, now))

Reverse ==
    /\ Idle
    /\ Done(Call("reverse"), Result(reverse(value), queue, "none", <<>>, <<>>))

DelItem ==
    /\ Idle
    /\ \E i \in Indexes, out \in DeleteAnswer, now \in Clock :
          Done([Call("delitem") EXCEPT !.i = i, !.now = now],
               delitem(value, queue, i, out, now))

DelSlice ==
    /\ Idle
    /\ \E i \in -1..(MaxLen + 1), j \in -1..(MaxLen + 1), now \in Clock :
          \E outs \in DeleteAnswers(Len(list_getslice(value, Max(i, 0), Max(j, 0)))) :
             Done([Call("delslice") EXCEPT !.i = i, !.j = j, !.now = now],
                  delslice(value, queue, i, j, outs, now))

Extend ==
    /\ Idle
    /\ \E other \in Others(Len(value)), kind \in {"list", "StoreLocations"} :
          \E outs \in [1..(IF kind = "list" THEN Len(other) ELSE 0) -> SizeOutcomes] :
             Done([Call("extend") EXCEPT !.other = other, !.kind = kind],
                  extend(value, queue, other, kind, outs))

IAdd ==
    /\ Idle
    /\ \E other \in Others(Len(value)), kind \in {"list", "StoreLocations"} :
          \E outs \in [1..(IF kind = "list" THEN Len(other) ELSE 0) -> SizeOutcomes] :
             Done([Call("iadd") EXCEPT !.other = other, !.kind = kind],
                  iadd(value, queue, other, kind, outs))

SetAttr ==
    /\ Idle
    /\ \E val \in SeqsUpTo(Locations, MaxArg),
          kind \in {"list", "StoreLocations", "other"} :
          \E outs \in [1..(IF kind # "other" /\ value = <<>> THEN Len(val) ELSE 0)
                          -> SizeOutcomes] :
             Done([Call("set_attr") EXCEPT !.other = val, !.kind = kind],
                  set_attr(value, queue, val, kind, outs))

DelAttr ==
    /\ Idle
    /\ \E outs \in DeleteAnswers(Len(value)), now \in Clock :
          Done([Call("del_attr") EXCEPT !.now = now],
               del_attr(value, queue, outs, now))

SetData ==
    /\ Idle
    /\ \E out \in AddOutcomes, url \in Uris :
          LET r == set_data(value, queue, out, url)
          IN  DoneImage([Call("set_data") EXCEPT !.location = Loc(url)], r,
                        IF r.err = "none" THEN [image EXCEPT !.status = "active"]
                        ELSE image)

Delete ==
    /\ Idle
    /\ \E outs \in DeleteAnswers(Len(value)), now \in Clock :
          LET d == delete(value, queue, image, outs, now)
          IN  DoneImage([Call("delete") EXCEPT !.now = now, !.ret = d.steps],
                        d.r, d.image)

GetData ==
    /\ Idle
    /\ \E outs \in [1..Len(value) -> GetOutcomes] :
          LET g == get_data(value, outs)
          IN  Done([Call("get_data") EXCEPT !.gets = g.gets, !.ret = g.ret],
                   Result(value, queue, g.err, <<>>, <<>>))

\* create_stores over a configured CONF.known_stores
CreateStores ==
    /\ Idle
    /\ \E known_stores \in SeqsUpTo(StoreEntries, MaxStores) :
          LET r == create_stores(known_stores, SCHEME_TO_CLS_MAP)
          IN  /\ SCHEME_TO_CLS_MAP' = r.map
              /\ last' = [Call("create_stores") EXCEPT
                              !.arg = known_stores, !.err = r.raised,
                              !.ret = r.count, !.registered = r.registered,
                              !.premap = SCHEME_TO_CLS_MAP]
    /\ UNCHANGED <<value, queue, CONF, image, workers>>

\* the uris handed to get_store_from_uri: scheme, '://' and the rest
SchemeChars == {"f", "h", "s"}
RestChars == {"a", "/", ":"}
UriOf(scheme, rest) == scheme \o <<":", "/", "/">> \o rest

\* get_store_from_uri: ret is the scheme it looked up and the class of the
\* store object it returned
GetStoreFromUri ==
    /\ Idle
    /\ \E scheme \in SeqsUpTo(SchemeChars, MaxScheme),
          rest \in SeqsUpTo(RestChars, MaxRest) :
          LET uri == UriOf(scheme, rest)
              looked_up == get_store_from_uri(uri)
          IN  last' = [Call("get_store_from_uri") EXCEPT
                          !.location = Loc(uri), !.arg = scheme,
                          !.premap = SCHEME_TO_CLS_MAP,
                          !.err = IF get_store_from_scheme(looked_up)
                                  THEN "none" ELSE "UnknownScheme",
                          !.ret = IF get_store_from_scheme(looked_up)
                                  THEN <<looked_up, store_class(looked_up)>>
                                  ELSE <<looked_up>>]
    /\ UNCHANGED <<value, queue, CONF, image, SCHEME_TO_CLS_MAP, workers>>

\* store_add_to_backend after a store.add that returned
StoreAdd ==
    /\ Idle
    /\ \E url \in {UriFA}, metadata \in MetaValues(MaxNodes) :
          last' = [Call("store_add_to_backend") EXCEPT
                      !.location = Loc(url), !.arg = metadata,
                      !.err = store_add_to_backend(url, metadata).raised,
                      !.ret = store_add_to_backend(url, metadata).ret]
    /\ UNCHANGED <<value, queue, CONF, image, SCHEME_TO_CLS_MAP, workers>>

RepoOutcomes == {"ok", "Forbidden"}

MemberAdd ==
    /\ Idle
    /\ \E member \in Tenants, repo_out \in RepoOutcomes,
          outs \in [1..Len(value) -> AclOutcomes] :
          LET m == member_change(value, image, repo_add(image, member),
                                 repo_out, outs)
          IN  DoneImage([Call("member_add") EXCEPT !.arg = member,
                                                  !.acls = m.acls],
                        Result(value, queue, m.err, <<>>, <<>>), m.image)

MemberRemove ==
    /\ Idle
    /\ \E member \in image.members, repo_out \in RepoOutcomes,
          outs \in [1..Len(value) -> AclOutcomes] :
          LET m == member_change(value, image, repo_remove(image, member),
                                 repo_out, outs)
          IN  DoneImage([Call("member_remove") EXCEPT !.arg = member,
                                                     !.acls = m.acls],
                        Result(value, queue, m.err, <<>>, <<>>), m.image)

\* a worker at os.path.exists: Duplicate, or on to the with block
ScheduleExists(r) ==
    /\ workers[r].pc = "exists"
    /\ workers' = [workers EXCEPT ![r] =
          IF schedule_exists(queue, workers[r].id)
          THEN [@ EXCEPT !.pc = "raised", !.raised = "Duplicate"]
          ELSE [@ EXCEPT !.pc = "write"]]
    /\ UNCHANGED <<value, queue, CONF, last, image, SCHEME_TO_CLS_MAP>>

\* a worker at the with block
ScheduleWrite(r) ==
    /\ workers[r].pc = "write"
    /\ queue' = schedule_write(queue, workers[r].uri, workers[r].id,
                               workers[r].now)
    /\ workers' = [workers EXCEPT ![r].pc = "utime"]
    /\ UNCHANGED <<value, CONF, last, image, SCHEME_TO_CLS_MAP>>

\* a worker at os.utime, after which the call returns
ScheduleUtime(r) ==
    /\ workers[r].pc = "utime"
    /\ queue' = schedule_utime(queue, workers[r].id, workers[r].now)
    /\ workers' = [workers EXCEPT ![r].pc = "returned"]
    /\ UNCHANGED <<value, CONF, last, image, SCHEME_TO_CLS_MAP>>

\* a request that schedules a delayed delete directly
Schedule(ids) ==
    /\ Idle
    /\ \E uri \in Uris, id \in ids, now \in Nows :
          LET s == schedule_delayed_delete_from_backend(queue, uri, id, now)
          IN  Done([Call("schedule") EXCEPT !.location = Loc(uri), !.id = id,
                                           !.now = now],
                   Result(value, s.queue, s.raised, <<>>, <<>>))

\* control is back at the caller, which goes on to its next call
Return ==
    /\ ~Idle
    /\ last' = NoCall
    /\ UNCHANGED <<value, queue, CONF, image, SCHEME_TO_CLS_MAP, workers>>

----------------------------------------------------------------------------
(* Specifications *)

Configs == [delayed_delete : BOOLEAN, metadata_encryption_key : BOOLEAN]

\* the registry the requests are served with: one store class, scheme "f"
DefaultRegistry == create_stores(<< <<"Filesystem">> >>, EmptyRegistry).map

\* A record as loaded: no location, or the one location it was stored with.
\* No metadata encryption key is set (the default); SpecSched covers both.
\* The queue directory outlives the process: it is empty, or holds an entry
\* an earlier request wrote for this image.
Init ==
    /\ value \in SeqsUpTo(Locations, 1)
    /\ CONF \in {c \in Configs : ~c.metadata_encryption_key}
    /\ queue \in {EmptyQueue, [EmptyQueue EXCEPT ![image_id] = WriteEntry(UriFA, 0)]}
    /\ last = NoCall
    /\ image = LoadedImage(value)
    /\ SCHEME_TO_CLS_MAP = DefaultRegistry
    /\ workers = NoWorkers

Next ==
    \/ Append_ \/ Insert \/ SetItem \/ Pop \/ Remove \/ Reverse
    \/ DelItem \/ DelSlice \/ Extend \/ IAdd \/ SetAttr \/ DelAttr
    \/ SetData \/ Return

Spec == Init /\ [][Next]_vars

\* the scheduler alone, serving requests for every image id
InitSched ==
    /\ value = <<>>
    /\ queue = EmptyQueue
    /\ CONF \in Configs
    /\ last = NoCall
    /\ image = LoadedImage(value)
    /\ SCHEME_TO_CLS_MAP = DefaultRegistry
    /\ workers = NoWorkers

ScheduleAny == Schedule(ImageIds)

NextSched == ScheduleAny \/ Return

SpecSched == InitSched /\ [][NextSched]_vars

\* the record-level calls of ImageProxy on an image as the repo loaded it,
\* with any location list the list operations can have left
InitImage ==
    /\ value \in SeqsUpTo(Locations, MaxLen)
    /\ CONF \in {c \in Configs : ~c.metadata_encryption_key}
    /\ queue \in {EmptyQueue, [EmptyQueue EXCEPT ![image_id] = WriteEntry(UriFA, 0)]}
    /\ last = NoCall
    /\ image = LoadedImage(value)
    /\ SCHEME_TO_CLS_MAP = DefaultRegistry
    /\ workers = NoWorkers

NextImage == Delete \/ GetData \/ Return

SpecImage == InitImage /\ [][NextImage]_vars

\* the registry from process start: create_stores fills it, requests
\* resolve uris against it
InitRegistry ==
    /\ value = <<>>
    /\ queue = EmptyQueue
    /\ CONF \in {c \in Configs : ~c.delayed_delete /\ ~c.metadata_encryption_key}
    /\ last = NoCall
    /\ image = LoadedImage(value)
    /\ SCHEME_TO_CLS_MAP = EmptyRegistry
    /\ workers = NoWorkers

NextRegistry == CreateStores \/ GetStoreFromUri \/ Return

SpecRegistry == InitRegistry /\ [][NextRegistry]_vars

\* the store operation alone, over what a driver may return
InitStoreAdd ==
    /\ value = <<>>
    /\ queue = EmptyQueue
    /\ CONF \in {c \in Configs : ~c.delayed_delete /\ ~c.metadata_encryption_key}
    /\ last = NoCall
    /\ image = LoadedImage(value)
    /\ SCHEME_TO_CLS_MAP = DefaultRegistry
    /\ workers = NoWorkers

NextStoreAdd == StoreAdd \/ Return

SpecStoreAdd == InitStoreAdd /\ [][NextStoreAdd]_vars

\* the member repo of an image of either visibility, with any location
\* list the list operations can have left
InitMembers ==
    /\ value \in SeqsUpTo(Locations, MaxLen)
    /\ queue = EmptyQueue
    /\ CONF \in {c \in Configs : ~c.delayed_delete /\ ~c.metadata_encryption_key}
    /\ last = NoCall
    /\ image \in {[LoadedImage(value) EXCEPT !.visibility = vis] : vis \in Visibilities}
    /\ SCHEME_TO_CLS_MAP = DefaultRegistry
    /\ workers = NoWorkers

NextMembers == MemberAdd \/ MemberRemove \/ Return

SpecMembers == InitMembers /\ [][NextMembers]_vars

\* two workers, each entering schedule_delayed_delete_from_backend with its
\* own uri and clock reading, for image ids that may be the same; the
\* queue directory is the one thing they share
InitWorkers ==
    /\ value = <<>>
    /\ queue = EmptyQueue
    /\ CONF \in {c \in Configs : c.delayed_delete}
    /\ last = NoCall
    /\ image = LoadedImage(value)
    /\ SCHEME_TO_CLS_MAP = DefaultRegistry
    /\ workers \in [Workers -> {Request("exists", uri, id, now, "none") :
                                     uri \in Uris, id \in ImageIds, now \in Nows}]

NextWorkers ==
    \E r \in Workers : ScheduleExists(r) \/ ScheduleWrite(r) \/ ScheduleUtime(r)

SpecWorkers == InitWorkers /\ [][NextWorkers]_vars

----------------------------------------------------------------------------
(* Vocabulary of the properties *)

Occurrences(s, x) == Cardinality({p \in 1..Len(s) : s[p] = x})

\* s with the element at 1-based position p taken out
Without(s, p) == [k \in 1..(Len(s) - 1) |-> IF k < p THEN s[k] ELSE s[k + 1]]

Registered(uri) == get_store_from_uri(uri) \in DOMAIN SCHEME_TO_CLS_MAP

\* the call asked the delete path, and the delete path raised
DeleteRaised == Len(last.deletes) > 0 /\ last.deletes[Len(last.deletes)].raised # "none"

\* the k-th delete request of the call: the driver deleted the object, or
\* the request wrote the queue entry of the image (only the first request to
\* find the directory without one can)
Deleted(k) ==
    LET c == last.deletes[k]
    IN  \/ c.path = "safe_delete" /\ c.store = "ok"
        \/ /\ c.path = "schedule" /\ k = 1
           /\ last.prequeue[image_id] = NoFile
           /\ queue[image_id] # NoFile /\ queue[image_id].uri = c.uri

\* ... or the driver failed in one of the ways safe_delete_from_backend absorbs
DeletedOrAbsorbed(k) ==
    LET c == last.deletes[k]
    IN  \/ Deleted(k)
        \/ /\ c.path = "safe_delete"
           /\ c.store \in {"NotFound", "NotImplementedError", "UnsupportedBackend"}

RemovalOps == {"pop", "delitem", "delslice", "remove"}

Left(u) == Occurrences(last.pre, Loc(u)) - Occurrences(value, Loc(u))

----------------------------------------------------------------------------
(* C1 *)

\* C1: when the delete path raises during pop(i), for any index i that
\* addresses an element, the list is afterwards what it was before the call,
\* in the same order, and the caller gets the error the delete path raised.
C1_PopFailureRestoresList ==
    (last.op = "pop" /\ DeleteRaised)
        => (value = last.pre /\ last.err = last.deletes[1].raised)

----------------------------------------------------------------------------
(* C2 *)

\* C2 as stated: after pop, item deletion, slice deletion or remove, the
\* entries that left the list are exactly those whose backend delete
\* succeeded or for which a delayed-delete entry was written.
C2_RemovedIffDeleted ==
    last.op \in RemovalOps =>
        \A u \in Uris :
            Left(u) = Cardinality({k \in 1..Len(last.deletes) :
                                      last.deletes[k].uri = u /\ Deleted(k)})

\* C2, amended: after pop, item deletion, slice deletion or remove, the
\* entries that left the list are exactly those whose backend delete
\* succeeded, or failed with NotFound, delete-not-supported or
\* UnsupportedBackend (which safe_delete_from_backend absorbs), or for which
\* a delayed-delete entry was written; the other entries stay.
C2_RemovedIffDeletePathReturned ==
    last.op \in RemovalOps =>
        \A u \in Uris :
            Left(u) = Cardinality({k \in 1..Len(last.deletes) :
                                      /\ last.deletes[k].uri = u
                                      /\ DeletedOrAbsorbed(k)})

\* a pop whose driver answered NotFound, and the entry is gone
C2_Witness ==
    /\ last.op = "pop"
    /\ Len(last.deletes) = 1 /\ last.deletes[1].store = "NotFound"
    /\ Len(value) = Len(last.pre) - 1

----------------------------------------------------------------------------
(* C3 *)

InsertionOps == {"append", "insert", "setitem"}

\* the size query of the call said the location is invalid
SizeInvalid(c) ==
    \/ c.got.exc = "none" /\ c.got.size <= 0
    \/ c.got.exc \in {"UnknownScheme", "NotFound"}

\* C3: append, insert and item assignment query the size of the new entry
\* once; a size <= 0, UnknownScheme or NotFound makes the call fail with
\* BadStoreUri and leaves the list as it was, and the call changes the list
\* or returns only when the size query returned a value > 0.
C3_InvalidLocationRejected ==
    last.op \in InsertionOps =>
        /\ Len(last.checks) = 1
        /\ last.checks[1].uri = last.location.url
        /\ SizeInvalid(last.checks[1]) => (last.err = "BadStoreUri" /\ value = last.pre)
        /\ (last.err = "none" \/ value # last.pre)
              => (last.checks[1].got.exc = "none" /\ last.checks[1].got.size > 0)

\* an append whose size query returned 0
C3_Witness ==
    /\ last.op = "append"
    /\ last.checks[1].got = [exc |-> "none", size |-> 0]
    /\ last.err = "BadStoreUri"
    /\ Len(value) = 1

----------------------------------------------------------------------------
(* C4 *)

\* the driver was asked to delete exactly once in the call, for uri
OneStoreDelete(uri) ==
    /\ Cardinality({k \in 1..Len(last.deletes) :
                       last.deletes[k].store # "not_called"}) = 1
    /\ \A k \in 1..Len(last.deletes) :
          last.deletes[k].store # "not_called" => last.deletes[k].uri = uri

\* C4: pop(i) or del list[i] at a valid index whose backend delete succeeds
\* leaves the list one shorter, with exactly the element at i taken out and
\* the others in order, after exactly one driver delete, for that
\* element's url.
C4_RemovalAtIndex ==
    (/\ last.op \in {"pop", "delitem"}
     /\ InRange(last.pre, last.i)
     /\ Len(last.deletes) > 0 /\ last.deletes[1].store = "ok")
        => /\ Len(value) = Len(last.pre) - 1
           /\ value = Without(last.pre, Pos(last.pre, last.i))
           /\ OneStoreDelete(last.pre[Pos(last.pre, last.i)].url)
           /\ last.err = "none"

\* del list[1] on a list of three distinct-position entries
C4_Witness ==
    /\ last.op = "delitem" /\ last.i = 1
    /\ Len(last.pre) = 3 /\ last.pre[1] # last.pre[2]
    /\ last.deletes[1].store = "ok"
    /\ value = <<last.pre[1], last.pre[3]>>

----------------------------------------------------------------------------
(* C5 *)

\* C5: whatever the operation, an entry that is no longer in the list had
\* the delete path invoked for its url in the call that took it out.
C5_NoEntryLeavesWithoutDelete ==
    last.op # "idle" =>
        \A u \in Uris :
            Left(u) <= Cardinality({k \in 1..Len(last.deletes) : last.deletes[k].uri = u})

----------------------------------------------------------------------------
(* C6 *)

NoBackendCall == last.deletes = <<>> /\ last.checks = <<>>

AssignedList == last.op = "set_attr" /\ last.kind \in {"list", "StoreLocations"}

\* C6 as stated: assigning a list to the locations of a record whose list is
\* not empty fails with Invalid, whatever the list assigned, leaves the list
\* as it was and calls no backend.
C6_AssignToNonEmptyFails ==
    (AssignedList /\ Len(last.pre) > 0)
        => (last.err = "Invalid" /\ value = last.pre /\ NoBackendCall)

\* C6, amended: assigning a list to the locations of a record whose list is
\* not empty fails with Invalid when the list assigned differs from the
\* current one and returns without error when it is equal to it; either way
\* the list stays as it was and no backend is called.
C6_AssignDifferentToNonEmptyFails ==
    (AssignedList /\ Len(last.pre) > 0)
        => /\ last.other # last.pre => last.err = "Invalid"
           /\ last.other = last.pre => last.err = "none"
           /\ value = last.pre
           /\ NoBackendCall

\* a different list assigned over a list of two entries
C6_Witness ==
    /\ AssignedList
    /\ Len(last.pre) = 2 /\ last.other # last.pre /\ Len(last.other) > 0
    /\ last.err = "Invalid"

----------------------------------------------------------------------------
(* C7 *)

\* the k-th entry of the assigned list is known to be invalid: its size
\* query said so, or no store is registered for its scheme
KnownInvalid(k) ==
    \/ k <= Len(last.checks) /\ SizeInvalid(last.checks[k])
    \/ ~Registered(last.other[k].url)

SizePositive(c) == c.got.exc = "none" /\ c.got.size > 0

\* C7 as stated: an assignment to the empty list of a record fails with
\* BadStoreUri and leaves the list empty when any entry of the assigned list
\* is invalid, and makes the list equal to the assigned list when all are
\* valid.
C7_ReplacementValidated ==
    (AssignedList /\ last.pre = <<>>)
        => /\ (\E k \in 1..Len(last.other) : KnownInvalid(k))
                => (last.err = "BadStoreUri" /\ value = <<>>)
           /\ (Len(last.checks) = Len(last.other)
                /\ \A k \in 1..Len(last.checks) : SizePositive(last.checks[k]))
                => value = last.other

\* C7, amended: an assignment to the empty list of a record queries the size
\* of the entries of the assigned list in order, up to the first that does
\* not validate.  If that entry is invalid (size <= 0, UnknownScheme,
\* NotFound) the assignment fails with BadStoreUri, if its size query raised
\* another error the assignment fails with that error, and the list is
\* still empty in both cases; if every entry validated the list equals the
\* assigned list.  The list changes only after every entry validated.
C7_ReplacementValidatedInOrder ==
    (AssignedList /\ last.pre = <<>>)
        => LET n == Len(last.checks)
           IN  /\ n <= Len(last.other)
               /\ \A k \in 1..n : last.checks[k].uri = last.other[k].url
               /\ \A k \in 1..(n - 1) : SizePositive(last.checks[k])
               /\ (n > 0 /\ SizeInvalid(last.checks[n]))
                    => (last.err = "BadStoreUri" /\ value = <<>>)
               /\ (n > 0 /\ last.checks[n].got.exc \notin {"none", "UnknownScheme", "NotFound"})
                    => (last.err = last.checks[n].got.exc /\ value = <<>>)
               /\ (n = Len(last.other) /\ \A k \in 1..n : SizePositive(last.checks[k]))
                    => (last.err = "none" /\ value = last.other)
               /\ value # <<>>
                    => (n = Len(last.other) /\ \A k \in 1..n : SizePositive(last.checks[k]))

\* the second of two entries is invalid, after the first validated
C7_Witness ==
    /\ AssignedList /\ last.pre = <<>>
    /\ Len(last.other) = 2 /\ Len(last.checks) = 2
    /\ SizePositive(last.checks[1]) /\ SizeInvalid(last.checks[2])
    /\ last.err = "BadStoreUri" /\ value = <<>>

----------------------------------------------------------------------------
(* C8 *)

----------------------------------------------------------------------------
(* C9 *)

\* C9: a schedule call for an image id that has a queue entry fails with
\* Duplicate and leaves the queue, the entry's uri and times included, as it
\* was; the first schedule call for an id writes an entry for the uri whose
\* modification time is now + scrub_time and whose text holds that time in
\* whole seconds, and touches the entry of no other id.
C9_ScheduleOncePerImage ==
    last.op = "schedule" =>
        LET id == last.id
            due == last.now + scrub_time * TicksPerSecond
        IN  /\ last.prequeue[id] # NoFile
                 => (last.err = "Duplicate" /\ queue = last.prequeue)
            /\ last.prequeue[id] = NoFile
                 => /\ last.err = "none"
                    /\ queue[id].uri = last.location.url
                    /\ queue[id].enc = CONF.metadata_encryption_key
                    /\ queue[id].mtime = due
                    /\ queue[id].time * TicksPerSecond <= due
                    /\ due < (queue[id].time + 1) * TicksPerSecond
                    /\ \A o \in ImageIds \ {id} : queue[o] = last.prequeue[o]

\* a second schedule call for the id, for another uri at another time
C9_Witness ==
    /\ last.op = "schedule"
    /\ last.prequeue[last.id] # NoFile
    /\ last.prequeue[last.id].uri # last.location.url
    /\ last.prequeue[last.id].mtime # last.now + scrub_time * TicksPerSecond
    /\ last.err = "Duplicate"

----------------------------------------------------------------------------
(* C10 *)

\* C10: every delete request of a call takes the path the delayed_delete
\* flag says.  Flag on: the request goes to the scheduler and the driver is
\* never asked to delete; the queue changes at most by the entry of the
\* image being written.  Flag off: the request goes to
\* safe_delete_from_backend, which asks the driver of the uri's scheme (there
\* is none to ask only when the scheme is unknown), and the queue is
\* unchanged.
C10_OnePathPerDeleteRequest ==
    last.op # "idle" =>
        /\ \A k \in 1..Len(last.deletes) :
              LET c == last.deletes[k]
              IN  /\ CONF.delayed_delete
                       => (c.path = "schedule" /\ c.store = "not_called")
                  /\ ~CONF.delayed_delete
                       => /\ c.path = "safe_delete"
                          /\ c.store = "not_called" <=> ~Registered(c.uri)
        /\ ~CONF.delayed_delete => queue = last.prequeue
        /\ queue # last.prequeue
              => /\ last.prequeue[image_id] = NoFile
                 /\ queue[image_id].uri = last.deletes[1].uri
                 /\ \A o \in ImageIds \ {image_id} : queue[o] = last.prequeue[o]

\* a pop under the delayed policy that wrote the queue entry
C10_Witness ==
    /\ last.op = "pop" /\ CONF.delayed_delete
    /\ Len(last.deletes) = 1 /\ last.deletes[1].path = "schedule"
    /\ last.prequeue[image_id] = NoFile /\ queue[image_id] # NoFile
    /\ Len(value) = Len(last.pre) - 1

----------------------------------------------------------------------------
(* C11 *)

\* the requests of the call that reached store.delete for the url u
StoreDeletes(u) ==
    {k \in 1..Len(last.deletes) :
        last.deletes[k].uri = u /\ last.deletes[k].store # "not_called"}

\* C11: after ImageProxy.delete of a record with one or more locations under
\* the immediate policy, the driver has received exactly one delete call for
\* the url of each location, and the location list is empty.
C11_DeleteCallsEachOnceAndEmpties ==
    (last.op = "delete" /\ ~CONF.delayed_delete /\ Len(last.pre) >= 1)
        => /\ \A k \in 1..Len(last.pre) :
                 Cardinality(StoreDeletes(last.pre[k].url)) = 1
           /\ value = <<>>

----------------------------------------------------------------------------
(* C12 *)

\* the k-th delete request failed in a way the claim calls best-effort:
\* delete unsupported, object not found, or no store for the scheme
BestEffortFailure(k) ==
    \/ last.deletes[k].store \in {"NotImplementedError", "NotFound"}
    \/ ~Registered(last.deletes[k].uri)

\* C12: during ImageProxy.delete under the immediate policy, a delete request
\* that fails because delete is unsupported, the object is not found or the
\* scheme is unknown raises nothing, and the request for the next location
\* of the record is still made.
C12_BestEffortFailuresAbsorbed ==
    (last.op = "delete" /\ ~CONF.delayed_delete)
        => \A k \in 1..Len(last.deletes) :
              BestEffortFailure(k)
                  => /\ last.deletes[k].raised = "none"
                     /\ k < Len(last.pre) => Len(last.deletes) > k

----------------------------------------------------------------------------
(* C13 *)

\* C13: ImageProxy.get_data fetches from the locations in list order, one
\* fetch per location, up to and including the first that succeeds, whose
\* data it returns; every fetch before it failed.  If every location fails
\* it raises the error of the last one, and NotFound when the list is empty.
\* The location list is not changed.
C13_GetDataFirstSuccessInOrder ==
    last.op = "get_data"
        => LET n == Len(last.gets)
           IN  /\ value = last.pre
               /\ n <= Len(value)
               /\ \A k \in 1..n : last.gets[k].uri = value[k].url
               /\ \A k \in 1..(n - 1) : last.gets[k].raised # "none"
               /\ Len(value) = 0 => last.err = "NotFound"
               /\ (n > 0 /\ last.gets[n].raised = "none")
                     => last.err = "none" /\ last.ret = value[n].url
               /\ (n > 0 /\ last.gets[n].raised # "none")
                     => n = Len(value) /\ last.err = last.gets[n].raised

\* a fetch that skipped a failing location, succeeded at the next and left a
\* later location uncontacted
C13_Witness ==
    /\ last.op = "get_data" /\ Len(value) = 3
    /\ Len(last.gets) = 2 /\ last.gets[1].raised # "none"
    /\ last.err = "none" /\ last.ret = value[2].url

----------------------------------------------------------------------------
(* C14 *)

\* C14: for the registry as create_stores left it and a uri made of a
\* scheme, '://' and a rest, get_store_from_uri looks up exactly the scheme
\* (the text before '://'); it returns a store of the class registered for
\* that scheme when there is one and raises UnknownScheme when there is none.
C14_UriResolvedByScheme ==
    last.op = "get_store_from_uri"
        => /\ last.ret[1] = last.arg
           /\ last.arg \in DOMAIN SCHEME_TO_CLS_MAP
                 => last.err = "none"
                    /\ last.ret = <<last.arg, SCHEME_TO_CLS_MAP[last.arg]>>
           /\ last.arg \notin DOMAIN SCHEME_TO_CLS_MAP
                 => last.err = "UnknownScheme" /\ Len(last.ret) = 1

\* a two-character scheme resolved in a registry that also knows its prefix
C14_Witness ==
    /\ last.op = "get_store_from_uri" /\ last.arg = <<"h", "s">>
    /\ last.err = "none" /\ last.ret[2] = "Http"
    /\ <<"f">> \in DOMAIN SCHEME_TO_CLS_MAP

----------------------------------------------------------------------------
(* C15 *)

\* an entry of known_stores that is empty or blanks only
Blank(e) == \A k \in 1..Len(e) : e[k] = " "

\* the store classes an entry names (none when it cannot be loaded)
ClassesNamed(e) == {e[k] : k \in 1..Len(e)} \cap StoreClasses

\* the entries of a list, without those naming a class an earlier one names
RECURSIVE FirstMentions(_)
FirstMentions(entries) ==
    IF entries = <<>> THEN <<>>
    ELSE LET n == Len(entries)
             front == SubSeq(entries, 1, n - 1)
         IN  IF \E k \in 1..(n - 1) :
                    ClassesNamed(entries[k]) \cap ClassesNamed(entries[n]) # {}
             THEN FirstMentions(front)
             ELSE Append(FirstMentions(front), entries[n])

\* C15: when create_stores returns, it returns the number of distinct store
\* classes in CONF.known_stores; each of them was registered exactly once,
\* and the registry and the count are those of the list without the later
\* occurrences of a class.
C15_CountsDistinctClasses ==
    (last.op = "create_stores" /\ last.err = "none")
        => LET classes == UNION {ClassesNamed(last.arg[k]) : k \in 1..Len(last.arg)}
               once == create_stores(FirstMentions(last.arg), last.premap)
           IN  /\ last.ret = <<Cardinality(classes)>>
               /\ Len(last.registered) = Cardinality(classes)
               /\ \A c \in classes : Occurrences(last.registered, c) = 1
               /\ once.count = last.ret
               /\ once.map = SCHEME_TO_CLS_MAP

\* a list naming one class twice, with another in between serving the same
\* scheme
C15_Witness ==
    /\ last.op = "create_stores" /\ last.err = "none"
    /\ last.arg = << <<"Filesystem">>, <<"Mirror", " ">>, <<" ", "Filesystem">> >>
    /\ last.ret = <<2>>
    /\ SCHEME_TO_CLS_MAP[<<"f">>] = "Mirror"

----------------------------------------------------------------------------
(* C19 *)

\* positions of known_stores whose entry cannot be loaded or names a store
\* that reports no schemes
Failing(entries) ==
    {k \in 1..Len(entries) :
        /\ ~Blank(entries[k])
        /\ \/ ClassesNamed(entries[k]) = {}
           \/ \E c \in ClassesNamed(entries[k]) : get_schemes(c) = {}}

First(S) == CHOOSE k \in S : \A m \in S : k <= m

\* C19: create_stores over a list with an entry that cannot be loaded or that
\* reports no schemes raises BackendException and returns no count; the
\* stores registered are those of the entries before the first such entry,
\* none of a later entry.
C19_FailsAtFirstBadStore ==
    (last.op = "create_stores" /\ Failing(last.arg) # {})
        => LET before == SubSeq(last.arg, 1, First(Failing(last.arg)) - 1)
           IN  /\ last.err = "BackendException"
               /\ last.ret = <<>>
               /\ \A k \in 1..Len(last.registered) :
                     \E m \in 1..Len(before) :
                        last.registered[k] \in ClassesNamed(before[m])
               /\ SCHEME_TO_CLS_MAP = create_stores(before, last.premap).map

\* a failure between a store that was registered and one that was not
C19_Witness ==
    /\ last.op = "create_stores" /\ last.premap = EmptyRegistry
    /\ last.arg = << <<"Filesystem">>, <<"Empty">>, <<"Http">> >>
    /\ last.err = "BackendException"
    /\ DOMAIN SCHEME_TO_CLS_MAP = {<<"f">>}

----------------------------------------------------------------------------
(* C16 *)

\* a value that is text, or a mapping or a sequence of such values
RECURSIVE JsonSafe(_)
JsonSafe(val) ==
    /\ val.t \in {"dict", "list", "unicode"}
    /\ \A k \in 1..Len(val.items) : JsonSafe(val.items[k])

\* the depth at which a value holds a value that is not JsonSafe itself
\* (0 when it holds none)
RECURSIVE BadDepth(_)
BadDepth(val) ==
    IF val.t \notin {"dict", "list", "unicode"} THEN 1
    ELSE LET deep == {BadDepth(val.items[k]) : k \in 1..Len(val.items)} \ {0}
         IN  IF deep = {} THEN 0 ELSE 1 + (CHOOSE d \in deep : \A e \in deep : d >= e)

\* C16: store_add_to_backend returns the location exactly when the metadata
\* the store returned is None, or a dict whose values are, at every depth,
\* dicts, lists or text; for any other metadata it raises BackendException
\* and returns nothing.
C16_MetadataAcceptedIffJsonSafe ==
    last.op = "store_add_to_backend"
        => IF last.arg = None \/ (last.arg.t = "dict" /\ JsonSafe(last.arg))
           THEN last.err = "none" /\ last.ret = last.location.url
           ELSE last.err = "BackendException" /\ last.ret = <<>>

\* a dict rejected for a value two levels down, inside a list
C16_Witness ==
    /\ last.op = "store_add_to_backend" /\ last.err = "BackendException"
    /\ last.arg.t = "dict" /\ Len(last.arg.items) = 1
    /\ last.arg.items[1].t = "list" /\ BadDepth(last.arg) = 3

----------------------------------------------------------------------------
(* C17 *)

MemberOps == {"member_add", "member_remove"}

\* the rule of the image as it is now: public, or read for its members
RulePushed(a) ==
    /\ a.call.public = (image.visibility = "public")
    /\ image.visibility # "public" => a.call.read_tenants = image.members

\* C17: after every add or remove of a sharing entry that succeeds, whatever
\* the visibility of the image, the access rule has been pushed once to every
\* location of the image: public for a public image, read for the member ids
\* as they are after the change for a private one.
C17_AclPushedToEveryLocation ==
    (last.op \in MemberOps /\ last.err = "none")
        => /\ Len(last.acls) = Len(value)
           /\ \A k \in 1..Len(last.acls) :
                 last.acls[k].call.uri = value[k].url /\ RulePushed(last.acls[k])

\* C17, amended: on a private image the rule (not public, read for the
\* member ids as they are after the change) has been pushed once to every
\* location, in list order; on a public image nothing has been pushed.
C17_AclPushedForPrivateOnly ==
    (last.op \in MemberOps /\ last.err = "none")
        => IF image.visibility = "public" THEN last.acls = <<>>
           ELSE /\ Len(last.acls) = Len(value)
                /\ \A k \in 1..Len(last.acls) :
                      /\ last.acls[k].call.uri = value[k].url
                      /\ RulePushed(last.acls[k])
                      /\ last.acls[k].store # "not_called"

\* a second member added to a private image with two locations
C17_Witness ==
    /\ last.op = "member_add" /\ last.err = "none"
    /\ image.visibility = "private" /\ image.members = Tenants
    /\ Len(value) = 2 /\ Len(last.acls) = 2
    /\ last.acls[2].call.read_tenants = Tenants

----------------------------------------------------------------------------
(* C18 *)

\* the positions of a statement among those the call ran
StepsOf(name) == {k \in 1..Len(last.ret) : last.ret[k] = name}

\* C18: with delayed delete enabled, ImageProxy.delete leaves the status of
\* the image at pending_delete, for an image without locations too, and the
\* scheduling requests for its locations come before the domain deletion.
C18_PendingDeleteAfterScheduling ==
    (last.op = "delete" /\ CONF.delayed_delete)
        => /\ image.status = "pending_delete"
           /\ \A d \in StepsOf("image.delete"),
                 k \in StepsOf("delete_image_from_backend") : k < d

\* C18, amended: the status is pending_delete when the image has at least
\* one location, and what the domain deletion left when it has none; the
\* domain deletion is the first thing called, before every scheduling
\* request, and each location gets its request in order until one raises.
C18_PendingDeleteIfLocations ==
    (last.op = "delete" /\ CONF.delayed_delete)
        => /\ Len(last.pre) >= 1 => image.status = "pending_delete"
           /\ Len(last.pre) = 0
                 => image = image_delete(last.preimage) /\ last.deletes = <<>>
           /\ StepsOf("image.delete") = {1}
           /\ \A k \in 1..Len(last.deletes) :
                 /\ last.deletes[k].path = "schedule"
                 /\ last.deletes[k].uri = last.pre[k].url
                 /\ k < Len(last.deletes) => last.deletes[k].raised = "none"
           /\ Len(last.deletes) < Len(last.pre) => DeleteRaised

\* an image with two locations whose first request wrote the queue entry:
\* the second finds it and raises, the status stays pending_delete
C18_Witness ==
    /\ last.op = "delete" /\ CONF.delayed_delete
    /\ Len(last.pre) = 2 /\ Len(last.deletes) = 2
    /\ last.err = "Duplicate" /\ image.status = "pending_delete"
    /\ last.prequeue[image_id] = NoFile /\ queue[image_id] # NoFile

----------------------------------------------------------------------------
(* C20 *)

ConcatOps == {"extend", "iadd"}

----------------------------------------------------------------------------
(* C21 *)

\* the bounds of the slice [i, j) of the list the call found, as 0-based
\* positions lo <= hi within the list
SliceLo == Min(Max(last.i, 0), Len(last.pre))
SliceHi == Max(SliceLo, Min(Max(last.j, 0), Len(last.pre)))

\* C21: __delslice__(i, j) makes one delete request for each element of the
\* slice, in list order, up to the first that raises; an element leaves the
\* list only after its own request returned.  If all return the list is
\* the original without positions i..j-1; if the request for the k-th
\* element of the slice raises, the first k-1 elements of the slice are gone
\* and every other element is still there, in the original order.
C21_SliceDeletedInOrder ==
    last.op = "delslice"
        => LET n == Len(last.deletes)
               front == SubSeq(last.pre, 1, SliceLo)
           IN  /\ n <= SliceHi - SliceLo
               /\ \A k \in 1..n : last.deletes[k].uri = last.pre[SliceLo + k].url
               /\ \A k \in 1..(n - 1) : last.deletes[k].raised = "none"
               /\ last.err = "none"
                     => /\ n = SliceHi - SliceLo
                        /\ value = front \o SubSeq(last.pre, SliceHi + 1, Len(last.pre))
               /\ last.err # "none"
                     => /\ n >= 1 /\ last.deletes[n].raised = last.err
                        /\ value = front \o SubSeq(last.pre, SliceLo + n, Len(last.pre))

\* the slice of the last two of three entries, whose second request raised
C21_Witness ==
    /\ last.op = "delslice" /\ Len(last.pre) = 3
    /\ SliceLo = 1 /\ SliceHi = 3
    /\ Len(last.deletes) = 2 /\ last.err # "none"
    /\ value = <<last.pre[1], last.pre[3]>>

----------------------------------------------------------------------------
(* C22 *)

Over(r) == workers[r].pc \in {"returned", "raised"}

\* the queue entry of its image is what request r wrote
EntryOf(r) ==
    /\ queue[workers[r].id].uri = workers[r].uri
    /\ queue[workers[r].id].mtime = workers[r].now + scrub_time * TicksPerSecond

\* C22: when two requests for the same image id have run
\* schedule_delayed_delete_from_backend at the same time, in whatever order
\* their statements interleaved, one of them returned and the other raised
\* Duplicate, and the queue entry holds the uri and the time of the one that
\* returned.
C22_OneConcurrentScheduleWins ==
    \A r1, r2 \in Workers :
        (r1 # r2 /\ workers[r1].id = workers[r2].id /\ Over(r1) /\ Over(r2))
            => \E w \in {r1, r2} :
                  /\ workers[w].pc = "returned" /\ EntryOf(w)
                  /\ \A l \in {r1, r2} \ {w} :
                        workers[l].pc = "raised" /\ workers[l].raised = "Duplicate"

----------------------------------------------------------------------------
(* C23 *)

\* a removal or a full clear that got as far as a delete request
RemovalRequested ==
    last.op \in RemovalOps \cup {"del_attr"} /\ Len(last.deletes) >= 1

\* C23: with delayed delete enabled, of the removals made on the list of an
\* image (one full clear, or removals one after another), only the first
\* takes an entry out.  A call that finds no queue entry for the image
\* writes it with its first request and removes that one entry (the front one
\* for a full clear); a further request of the call raises Duplicate and
\* the other entries stay, in their order.  A call that finds the queue
\* entry raises Duplicate and leaves the list as it was.
C23_OnlyFirstRemovalUnderDelay ==
    (CONF.delayed_delete /\ RemovalRequested)
        => IF last.prequeue[image_id] = NoFile
           THEN /\ queue[image_id] = WriteEntry(last.deletes[1].uri, last.now)
                /\ \E p \in 1..Len(last.pre) :
                      /\ last.pre[p].url = last.deletes[1].uri
                      /\ value = Without(last.pre, p)
                /\ last.op = "del_attr" => value = Tail(last.pre)
                /\ Len(last.deletes) <= 2
                /\ last.err = IF Len(last.deletes) = 2 THEN "Duplicate" ELSE "none"
           ELSE /\ last.err = "Duplicate"
                /\ value = last.pre
                /\ queue = last.prequeue

====
